---------------------------- MODULE Spec2Model ----------------------------
(***************************************************************************)
(* Time filtration of density operators and the quantum mutual information *)
(* interaction matrix.                                                     *)
(*                                                                         *)
(*   partition_circuit_by_moments   time_filtration_of_density_operators   *)
(*   compute_mutual_information     weighted interaction graphs from QMI   *)
(*                                                                         *)
(* Quantum states are kept exact.  A state vector over k qubits is an      *)
(* integer vector v on 0..2^k-1 that stands for v/|v|; halving while every *)
(* entry is even makes the representative unique for the circuits used     *)
(* here (gates H, X, CNOT and computational-basis measurement).  A density *)
(* matrix is an integer matrix m that stands for m/Tr(m).  Every reduced   *)
(* state of such a circuit has a flat spectrum (r eigenvalues equal to     *)
(* 1/r), so its base-2 von Neumann entropy is the integer log2 r.          *)
(***************************************************************************)
EXTENDS Integers, Sequences, FiniteSets, TLC

VARIABLES
    circuit,        \* the circuit handed in (a sequence of moments)
    pc,             \* position in partition_circuit_by_moments
    i,              \* loop index of partition_circuit_by_moments
    state_vectors,  \* the list being built
    sim_log,        \* history: every simulator invocation and its outcome
    ret,            \* what partition_circuit_by_moments returned
    rho,            \* input of compute_mutual_information
    wpc,            \* position in compute_mutual_information
    wi, wj,         \* the pair loop indices
    mim,            \* mutual_information_matrix
    last,           \* history: locals of the pair evaluated last
    failed,         \* history: the pair whose evaluation raised
    wret,           \* what compute_mutual_information returned
    evals,          \* history: per evaluated pair, how often and with which calls
    pending         \* per pair taken up out of loop order: its locals, not yet stored

pvars == <<circuit, pc, i, state_vectors, sim_log, ret>>
wvars == <<rho, wpc, wi, wj, mim, last, failed, wret, evals, pending>>
vars == <<circuit, pc, i, state_vectors, sim_log, ret,
          rho, wpc, wi, wj, mim, last, failed, wret, evals, pending>>

\* Longest circuit handed to partition_circuit_by_moments.
MaxMoments == 3
\* Most qubits of a state handed to compute_mutual_information.
MaxQubits == 3

\* An absent value is the empty sequence, a present value x is <<x>>.
None == <<>>
Some(x) == <<x>>

-----------------------------------------------------------------------------
(* Arithmetic on indices.                                                  *)

RECURSIVE Pow2(_)
Pow2(k) == IF k = 0 THEN 1 ELSE 2 * Pow2(k - 1)

RECURSIVE Log2(_)
Log2(d) == IF d <= 1 THEN 0 ELSE 1 + Log2(d \div 2)

Bit(x, b) == (x \div Pow2(b)) % 2

Flip(x, b) == IF Bit(x, b) = 1 THEN x - Pow2(b) ELSE x + Pow2(b)

RECURSIVE SumOver(_, _)
SumOver(f, S) ==
    IF S = {} THEN 0
    ELSE LET x == CHOOSE y \in S : TRUE IN f[x] + SumOver(f, S \ {x})

RECURSIVE SeqToSet(_)
SeqToSet(s) == IF s = <<>> THEN {} ELSE {Head(s)} \cup SeqToSet(Tail(s))

-----------------------------------------------------------------------------
(* Circuits: a circuit is a sequence of moments, a moment a sequence of    *)
(* operations on distinct qubits.                                          *)

H(q) == [g |-> "H", q |-> q, t |-> q]
X(q) == [g |-> "X", q |-> q, t |-> q]
CNOT(c, t) == [g |-> "CNOT", q |-> c, t |-> t]
measure(q) == [g |-> "M", q |-> q, t |-> q]

OpQubits(op) == {op.q, op.t}

RECURSIVE MomentQubits(_)
MomentQubits(m) ==
    IF m = <<>> THEN {} ELSE OpQubits(Head(m)) \cup MomentQubits(Tail(m))

\* cirq.Circuit.all_qubits()
RECURSIVE all_qubits(_)
all_qubits(c) ==
    IF c = <<>> THEN {} ELSE MomentQubits(Head(c)) \cup all_qubits(Tail(c))

\* Position of qubit q in the simulator's default (sorted) qubit order.
Rank(q, qs) == Cardinality({r \in qs : r < q})

\* cirq is big-endian: the first qubit of the order is the most significant
\* bit of a basis-state index.
BitOf(q, qs) == Cardinality(qs) - 1 - Rank(q, qs)

-----------------------------------------------------------------------------
(* The simulator.                                                          *)

AllEven(v) == \A x \in DOMAIN v : v[x] % 2 = 0

RECURSIVE Reduce(_)
Reduce(v) ==
    IF (\A x \in DOMAIN v : v[x] = 0) \/ ~AllEven(v) THEN v
    ELSE Reduce([x \in DOMAIN v |-> v[x] \div 2])

ApplyX(v, b) == [x \in DOMAIN v |-> v[Flip(x, b)]]

ApplyH(v, b) ==
    Reduce([x \in DOMAIN v |->
        IF Bit(x, b) = 0 THEN v[x] + v[Flip(x, b)]
                         ELSE v[Flip(x, b)] - v[x]])

ApplyCNOT(v, c, t) ==
    [x \in DOMAIN v |-> IF Bit(x, c) = 1 THEN v[Flip(x, t)] ELSE v[x]]

Project(v, b, o) == [x \in DOMAIN v |-> IF Bit(x, b) = o THEN v[x] ELSE 0]

\* A measurement collapses the state onto an outcome of non-zero probability.
ApplyMeasure(v, b) ==
    {Reduce(Project(v, b, o)) :
        o \in {o \in {0, 1} : \E x \in DOMAIN v : Bit(x, b) = o /\ v[x] # 0}}

\* The states one operation can leave behind.
ApplyOp(v, op, qs) ==
    CASE op.g = "H" -> {ApplyH(v, BitOf(op.q, qs))}
      [] op.g = "X" -> {ApplyX(v, BitOf(op.q, qs))}
      [] op.g = "CNOT" -> {ApplyCNOT(v, BitOf(op.q, qs), BitOf(op.t, qs))}
      [] op.g = "M" -> ApplyMeasure(v, BitOf(op.q, qs))

RECURSIVE RunOps(_, _, _)
RunOps(V, ops, qs) ==
    IF ops = <<>> THEN V
    ELSE RunOps(UNION {ApplyOp(v, Head(ops), qs) : v \in V}, Tail(ops), qs)

RECURSIVE Flatten(_)
Flatten(c) == IF c = <<>> THEN <<>> ELSE Head(c) \o Flatten(Tail(c))

\* |0...0> over k qubits.
ZeroState(k) == [x \in 0..(Pow2(k) - 1) |-> IF x = 0 THEN 1 ELSE 0]

\* simulator.simulate(c).final_state_vector: the final state vectors a run of
\* c can end in, over the qubits c acts on, starting from |0...0>.
SimOutcomes(c) ==
    LET qs == all_qubits(c)
    IN RunOps({ZeroState(Cardinality(qs))}, Flatten(c), qs)

-----------------------------------------------------------------------------
(* partition_circuit_by_moments(circuit)                                   *)

\* The moments the notebook's circuits are made of, over q0 and q1.
PartMoments ==
    { <<H(0)>>, <<X(0)>>, <<X(1)>>, <<CNOT(0, 1)>>, <<X(0), X(1)>>,
      <<X(0), measure(1)>>, <<measure(0)>>, <<measure(1)>> }

RECURSIVE SeqsUpTo(_, _)
SeqsUpTo(S, k) ==
    IF k = 0 THEN {<<>>}
    ELSE LET shorter == SeqsUpTo(S, k - 1)
         IN shorter \cup {Append(s, x) : s \in {t \in shorter : Len(t) = k - 1}, x \in S}

PartCircuits == SeqsUpTo(PartMoments, MaxMoments)

\* moments = list(circuit)
moments == circuit

\* The circuit of the simulation that precedes the loop: simulate(circuit).
FirstCircuit(c) == c

\* A loop that stops one moment early.
LoopRangeShort(ms) == 1..(Len(ms) - 2)

\* range(1, len(moments))
LoopRange(ms) == 1..(Len(ms) - 1)

\* A slice that stops one moment early: moments[:i].
partial_circuit_short(ms, k) == SubSeq(ms, 1, k)

\* The moment i alone, to be run on from the state reached so far.
partial_circuit_step(ms, k) == SubSeq(ms, k + 1, k + 1)

\* cirq.Circuit(moments[:i+1])
partial_circuit(ms, k) == SubSeq(ms, 1, k + 1)

\* state_vectors.append(current_state.final_state_vector)
AppendState(sv, v) == Append(sv, v)

\* A handler that swallows the exception and hands back what was collected.
SwallowFailure(sv) == [pc |-> "returned", ret |-> Some(sv)]

\* An exception raised by simulator.simulate is not caught: it leaves the
\* function, whose list of states is dropped.
Propagate(sv) == [pc |-> "raised", ret |-> None]

\* One simulator invocation: the circuit it got, and the state it returned
\* (ok) or nothing when it raised.
Logged(c, ok, r) == Append(sim_log, [circuit |-> c, ok |-> ok, result |-> r])

P_First ==
    /\ pc = "start"
    /\ \E v \in SimOutcomes(FirstCircuit(circuit)) :
          /\ sim_log' = Logged(FirstCircuit(circuit), TRUE, v)
          /\ state_vectors' = AppendState(<<>>, v)
    /\ i' = 1
    /\ pc' = "loop"
    /\ UNCHANGED <<circuit, ret>>
    /\ UNCHANGED wvars

P_FirstFails ==
    /\ pc = "start"
    /\ sim_log' = Logged(FirstCircuit(circuit), FALSE, None)
    /\ pc' = Propagate(<<>>).pc
    /\ ret' = Propagate(<<>>).ret
    /\ UNCHANGED <<circuit, i, state_vectors>>
    /\ UNCHANGED wvars

P_Loop ==
    /\ pc = "loop"
    /\ i \in LoopRange(moments)
    /\ \E v \in SimOutcomes(partial_circuit(moments, i)) :
          /\ sim_log' = Logged(partial_circuit(moments, i), TRUE, v)
          /\ state_vectors' = AppendState(state_vectors, v)
    /\ i' = i + 1
    /\ UNCHANGED <<circuit, pc, ret>>
    /\ UNCHANGED wvars

P_LoopFails ==
    /\ pc = "loop"
    /\ i \in LoopRange(moments)
    /\ sim_log' = Logged(partial_circuit(moments, i), FALSE, None)
    /\ pc' = Propagate(state_vectors).pc
    /\ ret' = Propagate(state_vectors).ret
    /\ UNCHANGED <<circuit, i, state_vectors>>
    /\ UNCHANGED wvars

P_Return ==
    /\ pc = "loop"
    /\ i \notin LoopRange(moments)
    /\ ret' = Some(state_vectors)
    /\ pc' = "returned"
    /\ UNCHANGED <<circuit, i, state_vectors, sim_log>>
    /\ UNCHANGED wvars

WeigherIdle ==
    /\ rho = None
    /\ wpc = "idle"
    /\ wi = 0
    /\ wj = 0
    /\ mim = None
    /\ last = None
    /\ failed = None
    /\ wret = None
    /\ evals = <<>>
    /\ pending = <<>>

InitPartition ==
    /\ circuit \in PartCircuits
    /\ pc = "start"
    /\ i = 0
    /\ state_vectors = <<>>
    /\ sim_log = <<>>
    /\ ret = None
    /\ WeigherIdle

NextPartition ==
    \/ P_First
    \/ P_FirstFails
    \/ P_Loop
    \/ P_LoopFails
    \/ P_Return

SpecPartition == InitPartition /\ [][NextPartition]_vars

-----------------------------------------------------------------------------
(* Density matrices, partial trace and entropy.                            *)

Dim(m) == Cardinality(DOMAIN m)

Indices(d) == 0..(d - 1)

TraceOf(m) == SumOver([x \in DOMAIN m |-> m[x][x]], DOMAIN m)

\* The index whose bit b is e and whose other bits are those of x, in order.
InsertBit(x, b, e) ==
    (x \div Pow2(b)) * Pow2(b + 1) + e * Pow2(b) + (x % Pow2(b))

\* The trace over the subsystem at bit position b.
TraceOutBit(m, b) ==
    [r \in Indices(Dim(m) \div 2) |-> [c \in Indices(Dim(m) \div 2) |->
        m[InsertBit(r, b, 0)][InsertBit(c, b, 0)]
      + m[InsertBit(r, b, 1)][InsertBit(c, b, 1)]]]

SeqMax(s) == CHOOSE x \in SeqToSet(s) : \A y \in SeqToSet(s) : y <= x

\* qiskit.quantum_info.partial_trace(state, qargs): the subsystems listed in
\* qargs are traced out, the others keep their order.  Qiskit is
\* little-endian: subsystem q is bit q of a basis-state index.
RECURSIVE partial_trace(_, _)
partial_trace(m, qargs) ==
    IF qargs = <<>> THEN m
    ELSE LET b == SeqMax(qargs)
         IN partial_trace(TraceOutBit(m, b), SelectSeq(qargs, LAMBDA q : q # b))

MatMul(a, b) ==
    [r \in DOMAIN a |-> [c \in DOMAIN a |->
        SumOver([k \in DOMAIN a |-> a[r][k] * b[k][c]], DOMAIN a)]]

Scale(k, m) == [r \in DOMAIN m |-> [c \in DOMAIN m |-> k * m[r][c]]]

\* The entropy of the diagonal of m alone, the off-diagonal entries dropped.
entropy_of_diagonal(m) ==
    LET d == [r \in DOMAIN m |-> [c \in DOMAIN m |-> IF r = c THEN m[r][c] ELSE 0]]
    IN CHOOSE k \in 0..Log2(Dim(m)) : Scale(Pow2(k), MatMul(d, d)) = Scale(TraceOf(d), d)

\* qiskit.quantum_info.entropy(state) in bits, -sum(l * log2 l) over the
\* eigenvalues l of m/Tr(m).  rank many eigenvalues equal to 1/rank are what
\* rank * m*m = Tr(m) * m says, and their entropy is log2 rank.
entropy(m) ==
    LET square == MatMul(m, m)
        scaled == Scale(TraceOf(m), m)
    IN CHOOSE k \in 0..Log2(Dim(m)) : Scale(Pow2(k), square) = scaled

\* cirq.final_density_matrix(c) of a circuit without measurement: |psi><psi|.
final_density_matrix(c) ==
    LET v == CHOOSE w \in SimOutcomes(c) : TRUE
    IN [r \in DOMAIN v |-> [k \in DOMAIN v |-> v[r] * v[k]]]

-----------------------------------------------------------------------------
(* compute_mutual_information(rho)                                         *)

RECURSIVE SortedSeq(_)
SortedSeq(S) ==
    IF S = {} THEN <<>>
    ELSE LET x == CHOOSE y \in S : \A z \in S : y <= z
         IN <<x>> \o SortedSeq(S \ {x})

\* The circuits the states are prepared with: H, X or nothing on every
\* qubit, then CNOTs between neighbours, then possibly X on every qubit.
FirstLayer(f) ==
    LET qs == SortedSeq({q \in DOMAIN f : f[q] # "0"})
    IN IF qs = <<>> THEN <<>>
       ELSE << [k \in DOMAIN qs |-> IF f[qs[k]] = "H" THEN H(qs[k]) ELSE X(qs[k])] >>

CnotLayers(B) == LET ks == SortedSeq(B) IN [k \in DOMAIN ks |-> <<CNOT(ks[k], ks[k] + 1)>>]

LastLayer(n, x) == IF x THEN << [k \in 1..n |-> X(k - 1)] >> ELSE <<>>

PrepCircuits ==
    UNION { { c \in { FirstLayer(f) \o CnotLayers(B) \o LastLayer(n, x) :
                        f \in [Indices(n) -> {"H", "X", "0"}],
                        B \in SUBSET Indices(n - 1),
                        x \in BOOLEAN } :
              all_qubits(c) = Indices(n) } : n \in 1..MaxQubits }

\* n = int(np.log2(rho.shape[0]))
NumQubits(m) == Log2(Dim(m))

\* np.zeros((n, n))
Zeros(n) == [r \in Indices(n) |-> [c \in Indices(n) |-> 0]]

\* The loops "for i in range(n): for j in range(i+1, n)": <<n, n>> stands for
\* the end of the outer loop.
FirstPair(n) == IF n >= 2 THEN <<0, 1>> ELSE <<n, n>>

\* The loops with "for j in range(n)", the diagonal skipped: both triangles.
NextPairBothSides(a, b, n) ==
    LET nb == IF b + 1 = a THEN b + 2 ELSE b + 1
    IN IF nb < n THEN <<a, nb>>
       ELSE IF a + 1 < n THEN <<a + 1, 0>>
       ELSE <<n, n>>

NextPair(a, b, n) ==
    IF b + 1 < n THEN <<a, b + 1>>
    ELSE IF a + 2 < n THEN <<a + 1, a + 2>>
    ELSE <<n, n>>

\* trace_indices = [k for k in range(n) if k != i and k != j]
trace_indices(n, a, b) == SelectSeq([k \in 1..n |-> k - 1], LAMBDA k : k # a /\ k # b)

\* rho_ij = partial_trace(rho, trace_indices)
rho_pair(m, a, b) == partial_trace(m, trace_indices(NumQubits(m), a, b))

\* entropy(partial_trace(rho_ij, [0])): a copy of the line for qubit j.
entropy_first_copied(m2) == entropy(partial_trace(m2, <<0>>))

\* entropy_i = entropy(partial_trace(rho_ij, [1]))
entropy_first(m2) == entropy(partial_trace(m2, <<1>>))

\* entropy_j = entropy(partial_trace(rho_ij, [0]))
entropy_second(m2) == entropy(partial_trace(m2, <<0>>))

\* A sign slip in the mutual information.
mutual_information_slip(ei, ej, m2) == ei + ej + entropy(m2)

\* entropy_i + entropy_j - entropy(rho_ij)
mutual_information(ei, ej, m2) == ei + ej - entropy(m2)

\* A mirroring that forgets the transpose.
MirrorNoTranspose(w) ==
    [r \in DOMAIN w |-> [c \in DOMAIN w |-> w[r][c] - (IF r = c THEN w[r][r] ELSE 0)]]

\* mutual_information_matrix += mutual_information_matrix.T
\*                              - np.diag(mutual_information_matrix.diagonal())
Mirror(w) ==
    [r \in DOMAIN w |-> [c \in DOMAIN w |->
        w[r][c] + w[c][r] - (IF r = c THEN w[r][r] ELSE 0)]]

\* An assignment of the whole row i instead of the entry (i, j).
WriteRow(w, a, b, value) ==
    [w EXCEPT ![a] = [c \in DOMAIN w[a] |-> IF c = b THEN value ELSE 0]]

\* mutual_information_matrix[i,j] = ...
WriteEntry(w, a, b, value) == [w EXCEPT ![a][b] = value]

Call(fn, arg) == [fn |-> fn, dim |-> Dim(arg)]

\* A loop body that makes one reduction on rho_ij serve both qubits.
PairCallsShared(m, a, b) ==
    LET rho_ij == rho_pair(m, a, b)
    IN << Call("partial_trace", m),
          Call("partial_trace", rho_ij),
          Call("entropy", partial_trace(rho_ij, <<1>>)),
          Call("entropy", partial_trace(rho_ij, <<1>>)),
          Call("entropy", rho_ij) >>

\* The library calls of one run of the loop body, in the order they are made,
\* each with the dimension of the matrix it is given.
PairCalls(m, a, b) ==
    LET rho_ij == rho_pair(m, a, b)
    IN << Call("partial_trace", m),
          Call("partial_trace", rho_ij),
          Call("entropy", partial_trace(rho_ij, <<1>>)),
          Call("partial_trace", rho_ij),
          Call("entropy", partial_trace(rho_ij, <<0>>)),
          Call("entropy", rho_ij) >>

\* The history of evaluations with one more evaluation of the pair p.
Recorded(ev, p, calls) ==
    [q \in DOMAIN ev \cup {p} |->
        IF q = p
        THEN [times |-> (IF p \in DOMAIN ev THEN ev[p].times ELSE 0) + 1, calls |-> calls]
        ELSE ev[q]]

\* A handler that skips the failed pair and goes on with the next one.
SkipFailedPair(a, b, n) ==
    [wpc |-> "loop", wi |-> NextPair(a, b, n)[1], wj |-> NextPair(a, b, n)[2]]

\* An exception raised by partial_trace or entropy is not caught: it leaves
\* the function at the pair (a, b).
PropagatePair(a, b, n) == [wpc |-> "raised", wi |-> a, wj |-> b]

W_Start ==
    /\ wpc = "start"
    /\ mim' = Some(Zeros(NumQubits(rho[1])))
    /\ wi' = FirstPair(NumQubits(rho[1]))[1]
    /\ wj' = FirstPair(NumQubits(rho[1]))[2]
    /\ wpc' = "loop"
    /\ UNCHANGED <<rho, last, failed, wret, evals, pending>>
    /\ UNCHANGED pvars

W_Pair ==
    /\ wpc = "loop"
    /\ wi < NumQubits(rho[1])
    /\ LET n == NumQubits(rho[1])
           rho_ij == rho_pair(rho[1], wi, wj)
           entropy_i == entropy_first(rho_ij)
           entropy_j == entropy_second(rho_ij)
           value == mutual_information(entropy_i, entropy_j, rho_ij)
       IN /\ mim' = Some(WriteEntry(mim[1], wi, wj, value))
          /\ evals' = Recorded(evals, <<wi, wj>>, PairCalls(rho[1], wi, wj))
          /\ last' = Some([i |-> wi, j |-> wj, rho_ij |-> rho_ij,
                           entropy_i |-> entropy_i, entropy_j |-> entropy_j])
          /\ wi' = NextPair(wi, wj, n)[1]
          /\ wj' = NextPair(wi, wj, n)[2]
    /\ UNCHANGED <<rho, wpc, failed, wret, pending>>
    /\ UNCHANGED pvars

W_PairFails ==
    /\ wpc = "loop"
    /\ wi < NumQubits(rho[1])
    /\ failed' = Some(<<wi, wj>>)
    /\ LET after == PropagatePair(wi, wj, NumQubits(rho[1]))
       IN /\ wpc' = after.wpc
          /\ wi' = after.wi
          /\ wj' = after.wj
    /\ UNCHANGED <<rho, mim, last, wret, evals, pending>>
    /\ UNCHANGED pvars

W_Return ==
    /\ wpc = "loop"
    /\ wi >= NumQubits(rho[1])
    /\ mim' = Some(Mirror(mim[1]))
    /\ wret' = Some(Mirror(mim[1]))
    /\ wpc' = "returned"
    /\ UNCHANGED <<rho, wi, wj, last, failed, evals, pending>>
    /\ UNCHANGED pvars

InitWeigher ==
    /\ circuit \in PrepCircuits
    /\ rho = Some(final_density_matrix(circuit))
    /\ wpc = "start"
    /\ wi = 0
    /\ wj = 0
    /\ mim = None
    /\ last = None
    /\ failed = None
    /\ wret = None
    /\ evals = <<>>
    /\ pending = <<>>
    /\ pc = "idle"
    /\ i = 0
    /\ state_vectors = <<>>
    /\ sim_log = <<>>
    /\ ret = None

NextWeigher ==
    \/ W_Start
    \/ W_Pair
    \/ W_PairFails
    \/ W_Return

SpecWeigher == InitWeigher /\ [][NextWeigher]_vars

-----------------------------------------------------------------------------
(* Properties of partition_circuit_by_moments.                             *)

HasMeasurement(c) == \E k \in DOMAIN c : \E o \in DOMAIN c[k] : c[k][o].g = "M"

StripMoment(m) == SelectSeq(m, LAMBDA op : op.g # "M")

StripMeasurements(c) == [k \in DOMAIN c |-> StripMoment(c[k])]

\* C1: for a circuit of M >= 1 moments, element k of the returned list is the
\* state the simulator returned for the cumulative prefix of moments 0..k, in
\* increasing moment order (element 0 is the state after moment 0 alone).
C1_ElementIsPrefixState ==
    (pc = "returned" /\ Len(circuit) >= 1) =>
        \A k \in 1..Len(circuit) :
            /\ k <= Len(ret[1])
            /\ k <= Len(sim_log)
            /\ sim_log[k].circuit = SubSeq(circuit, 1, k)
            /\ sim_log[k].ok
            /\ ret[1][k] = sim_log[k].result

\* C2: for a circuit of M >= 1 moments the returned list has exactly M
\* elements.
C2_OneStatePerMoment ==
    (pc = "returned" /\ Len(circuit) >= 1) => Len(ret[1]) = Len(circuit)

C2_Witness ==
    /\ pc = "returned"
    /\ Len(circuit) = MaxMoments
    /\ Len(ret[1]) = MaxMoments

\* C3: measurements are ignored: no circuit handed to the simulator holds a
\* measurement, and every recorded state is a state of the same prefix with
\* its measurements removed.
C3_MeasurementsIgnored ==
    \A k \in DOMAIN sim_log :
        /\ ~HasMeasurement(sim_log[k].circuit)
        /\ sim_log[k].ok =>
              sim_log[k].result \in SimOutcomes(StripMeasurements(sim_log[k].circuit))

\* C4: a circuit of zero moments makes the function signal an error: it
\* never returns a list and never records a simulated state.
C4_ZeroMomentsSignalsError ==
    Len(circuit) = 0 => (pc \in {"start", "raised"} /\ state_vectors = <<>>)

\* C5: a failed simulator invocation is surfaced at once: it is the last
\* invocation ever made (no retry, no later prefix), the function has raised
\* and returned no list, not even a partial one.
C5_FailureSurfacesImmediately ==
    \A k \in DOMAIN sim_log :
        ~sim_log[k].ok =>
            /\ k = Len(sim_log)
            /\ pc = "raised"
            /\ ret = None

C5_Witness ==
    /\ pc = "raised"
    /\ Len(sim_log) = 3
    /\ ~sim_log[3].ok
    /\ Len(state_vectors) = 2

\* The measurement-free circuit H(q0), CNOT(q0, q1), X(q0).
ScenarioB == << <<H(0)>>, <<CNOT(0, 1)>>, <<X(0)>> >>

\* (|00> + |11>)/sqrt 2 and (|01> + |10>)/sqrt 2 over q0, q1.
BellEven == [x \in 0..3 |-> IF x \in {0, 3} THEN 1 ELSE 0]
BellOdd == [x \in 0..3 |-> IF x \in {1, 2} THEN 1 ELSE 0]

IsBasisState(v) == Cardinality({x \in DOMAIN v : v[x] # 0}) = 1

\* C11 as stated: of the three states of ScenarioB the second is
\* (|00> + |11>)/sqrt 2 and the third is a basis state, the X flip of q0
\* applied to the second.
C11_ThirdIsBasisState ==
    (pc = "returned" /\ circuit = ScenarioB) =>
        /\ Len(ret[1]) = 3
        /\ ret[1][2] = BellEven
        /\ ret[1][3] = ApplyX(ret[1][2], BitOf(0, {0, 1}))
        /\ IsBasisState(ret[1][3])

\* C11 amended: of the three states of ScenarioB the second is
\* (|00> + |11>)/sqrt 2 and the third is the X flip of q0 applied to it,
\* (|01> + |10>)/sqrt 2, which is no basis state.
C11_ThirdIsFlippedBell ==
    (pc = "returned" /\ circuit = ScenarioB) =>
        /\ Len(ret[1]) = 3
        /\ ret[1][2] = BellEven
        /\ ret[1][3] = ApplyX(ret[1][2], BitOf(0, {0, 1}))
        /\ ret[1][3] = BellOdd
        /\ ~IsBasisState(ret[1][3])

C11_Witness ==
    /\ pc = "returned"
    /\ circuit = ScenarioB
    /\ ret[1][3] = BellOdd

-----------------------------------------------------------------------------
(* Properties of compute_mutual_information.                               *)

\* The bits of x at the positions of S, packed in increasing order.
Sub(x, S) ==
    SumOver([p \in S |-> Bit(x, p) * Pow2(Cardinality({q \in S : q < p}))], S)

\* x with its bits at the positions of S replaced by the packed bits of y.
Put(x, S, y) ==
    x - SumOver([p \in S |-> Bit(x, p) * Pow2(p)], S)
      + SumOver([p \in S |-> Bit(y, Cardinality({q \in S : q < p})) * Pow2(p)], S)

\* The reduction of m onto the subsystems at the bit positions of S: entry
\* (r, c) sums m over the basis states of the traced-out subsystems.
Reduced(m, S) ==
    [r \in Indices(Pow2(Cardinality(S))) |-> [c \in Indices(Pow2(Cardinality(S))) |->
        LET xs == {x \in DOMAIN m : Sub(x, S) = r}
        IN SumOver([x \in xs |-> m[x][Put(x, S, c)]], xs)]]

\* S(rho_a) + S(rho_b) - S(rho_ab) for the subsystems at bit positions a, b.
MutualInformationOf(m, a, b) ==
    entropy(Reduced(m, {a})) + entropy(Reduced(m, {b})) - entropy(Reduced(m, {a, b}))

\* Pairs a < b of an n-qubit state.
PairsOf(n) == {p \in Indices(n) \X Indices(n) : p[1] < p[2]}

\* Bit position of circuit qubit q in a state cirq returns for n qubits.
CircuitBit(q, n) == BitOf(q, Indices(n))

\* C6: the returned matrix is n x n, symmetric, with a zero diagonal.
C6_SymmetricZeroDiagonal ==
    wpc = "returned" =>
        LET n == NumQubits(rho[1])
            w == wret[1]
        IN /\ DOMAIN w = Indices(n)
           /\ \A r \in Indices(n) : DOMAIN w[r] = Indices(n)
           /\ \A r \in Indices(n) : w[r][r] = 0
           /\ \A r \in Indices(n), c \in Indices(n) : w[r][c] = w[c][r]

C6_Witness ==
    /\ wpc = "returned"
    /\ NumQubits(rho[1]) = 3
    /\ wret[1][1][0] = 2
    /\ wret[1][0][1] = 2
    /\ wret[1][2][0] = 0

\* C7: for every pair a < b the returned entry (a, b) is
\* S(rho_a) + S(rho_b) - S(rho_ab), the reductions being those of the input
\* state onto {a}, {b} and {a, b} in the reducer's (qiskit's) index convention.
C7_EntryIsMutualInformation ==
    wpc = "returned" =>
        \A p \in PairsOf(NumQubits(rho[1])) :
            wret[1][p[1]][p[2]] = MutualInformationOf(rho[1], p[1], p[2])

C7_Witness ==
    /\ wpc = "returned"
    /\ NumQubits(rho[1]) = 3
    /\ wret[1][0][1] = 1
    /\ wret[1][1][2] = 1
    /\ wret[1][0][2] = 1

\* C8: for a state produced by cirq.final_density_matrix (circuit qubit 0 the
\* most significant bit), the returned entry (a, b) is the mutual information
\* between circuit qubits a and b.
C8_EntryIsCircuitQubitPair ==
    wpc = "returned" =>
        LET n == NumQubits(rho[1])
        IN \A p \in PairsOf(n) :
              wret[1][p[1]][p[2]] =
                  MutualInformationOf(rho[1], CircuitBit(p[1], n), CircuitBit(p[2], n))

\* C9: a pair whose reduction or entropy computation fails makes the function
\* raise: no matrix is returned, so none is returned with the failed pair's
\* entry left at its initial 0, and a returned matrix had no failed pair.
C9_PairFailurePropagates ==
    /\ failed # None => (wpc = "raised" /\ wret = None)
    /\ wpc = "returned" => failed = None

C9_Witness ==
    /\ failed = Some(<<1, 2>>)
    /\ wpc = "raised"
    /\ mim[1][0][1] = 2
    /\ mim[1][1][2] = 0

\* C10: reducing to {a, b} and then tracing out position 1 gives the direct
\* reduction onto {a}, tracing out position 0 the direct reduction onto {b};
\* so entropy_i and entropy_j are the entropies of qubits i and j of the
\* full state.
C10_TwoStepReduction ==
    /\ wpc = "start" =>
          \A p \in PairsOf(NumQubits(rho[1])) :
              /\ partial_trace(rho_pair(rho[1], p[1], p[2]), <<1>>) = Reduced(rho[1], {p[1]})
              /\ partial_trace(rho_pair(rho[1], p[1], p[2]), <<0>>) = Reduced(rho[1], {p[2]})
    /\ last # None =>
          /\ last[1].entropy_i = entropy(Reduced(rho[1], {last[1].i}))
          /\ last[1].entropy_j = entropy(Reduced(rho[1], {last[1].j}))

C10_Witness ==
    /\ last # None
    /\ NumQubits(rho[1]) = 3
    /\ last[1].i = 0
    /\ last[1].j = 2
    /\ last[1].entropy_i = 1
    /\ last[1].entropy_j = 0

\* The GHZ-preparing circuit H(q0), CNOT(q0, q1), CNOT(q1, q2).
GHZCircuit == << <<H(0)>>, <<CNOT(0, 1)>>, <<CNOT(1, 2)>> >>

\* The notebook's circuit: H on q0, q1 and q2, then the two CNOTs.
NotebookCircuit == << <<H(0), H(1), H(2)>>, <<CNOT(0, 1)>>, <<CNOT(1, 2)>> >>

\* C12 as stated: for the final state of GHZCircuit the three pairs get the
\* same value and the value is near zero (0 in exact arithmetic), not of order 1.
C12_GHZNearZero ==
    (wpc = "returned" /\ circuit = GHZCircuit) =>
        /\ wret[1][0][1] = wret[1][0][2]
        /\ wret[1][0][2] = wret[1][1][2]
        /\ wret[1][0][1] = 0

\* C12 amended: for the final state of GHZCircuit the three pairs get the
\* same value and the value is 1 bit; the value 0 for all three pairs is
\* that of NotebookCircuit, whose final state is a product state.
C12_GHZOneBit ==
    /\ (wpc = "returned" /\ circuit = GHZCircuit) =>
          /\ wret[1][0][1] = wret[1][0][2]
          /\ wret[1][0][2] = wret[1][1][2]
          /\ wret[1][0][1] = 1
    /\ (wpc = "returned" /\ circuit = NotebookCircuit) =>
          /\ wret[1][0][1] = 0
          /\ wret[1][0][2] = 0
          /\ wret[1][1][2] = 0

C12_Witness ==
    /\ wpc = "returned"
    /\ circuit = GHZCircuit
    /\ wret[1][1][2] = 1

RECURSIVE ProductOver(_, _)
ProductOver(f, S) ==
    IF S = {} THEN 1
    ELSE LET x == CHOOSE y \in S : TRUE IN f[x] * ProductOver(f, S \ {x})

\* The reduction of m onto the qubit at bit position q.
Marginal(m, q) ==
    [a \in {0, 1} |-> [b \in {0, 1} |->
        LET xs == {x \in DOMAIN m : Bit(x, q) = a}
        IN SumOver([x \in xs |-> m[x][IF a = b THEN x ELSE Flip(x, q)]], xs)]]

\* m is the tensor product of the one-qubit matrices one[q], up to scale.
IsTensorOf(m, one, scale) ==
    \A r \in DOMAIN m, c \in DOMAIN m :
        scale * m[r][c] =
            ProductOver([q \in DOMAIN one |-> one[q][Bit(r, q)][Bit(c, q)]], DOMAIN one)

\* m is an unentangled product state: it is the tensor product of its
\* one-qubit reductions (each of trace Tr(m)).
IsProduct(m) ==
    LET n == NumQubits(m)
    IN IsTensorOf(m, [q \in Indices(n) |-> Marginal(m, q)],
                  ProductOver([q \in Indices(n - 1) |-> TraceOf(m)], Indices(n - 1)))

\* |0...0><0...0| over n qubits.
ZeroDensity(n) ==
    [r \in Indices(Pow2(n)) |-> [c \in Indices(Pow2(n)) |-> IF r = 0 /\ c = 0 THEN 1 ELSE 0]]

\* C13: for |0...0> and every other unentangled product state, every
\* off-diagonal entry of the returned matrix is 0 and every one-qubit entropy
\* computed on the way is 0.
C13_ProductStateZero ==
    /\ (wpc = "returned" /\ IsProduct(rho[1])) =>
          \A r \in DOMAIN wret[1], c \in DOMAIN wret[1] : r # c => wret[1][r][c] = 0
    /\ (last # None /\ IsProduct(rho[1])) =>
          /\ last[1].entropy_i = 0
          /\ last[1].entropy_j = 0

C13_Witness ==
    /\ wpc = "returned"
    /\ rho[1] = ZeroDensity(3)
    /\ IsProduct(rho[1])
    /\ last # None
    /\ last[1].entropy_i = 0
    /\ wret[1][0][1] = 0

\* C14: every pair is evaluated exactly once and only for i < j, so a call
\* that returns has made n(n-1)/2 evaluations; the mirroring step copies each
\* upper entry (r, c) to (c, r), leaves the upper triangle and the diagonal as
\* they were, and evaluates nothing.
C14_UpperOnceThenMirrored ==
    /\ [](\A p \in DOMAIN evals : p[1] < p[2] /\ evals[p].times = 1)
    /\ [](wpc = "returned" =>
            LET n == NumQubits(rho[1])
            IN /\ DOMAIN evals = PairsOf(n)
               /\ 2 * Cardinality(DOMAIN evals) = n * (n - 1))
    /\ [][(wpc = "loop" /\ wpc' = "returned") =>
            /\ evals' = evals
            /\ wret' = mim'
            /\ \A r \in DOMAIN mim[1], c \in DOMAIN mim[1] :
                  /\ r <= c => mim'[1][r][c] = mim[1][r][c]
                  /\ r > c => /\ mim[1][r][c] = 0
                              /\ mim'[1][r][c] = mim[1][c][r]]_vars

C14_Witness ==
    /\ wpc = "returned"
    /\ Cardinality(DOMAIN evals) = 3
    /\ evals[<<1, 2>>].times = 1
    /\ wret[1][2][1] = 2
    /\ wret[1][1][0] = 0

\* How many of the calls are calls of fn.
CallsOf(calls, fn) == Cardinality({k \in DOMAIN calls : calls[k].fn = fn})

\* C15 as stated: every pair evaluation makes exactly two partial traces and
\* exactly three entropy computations.
C15_TwoTracesThreeEntropies ==
    \A p \in DOMAIN evals :
        /\ CallsOf(evals[p].calls, "partial_trace") = 2
        /\ CallsOf(evals[p].calls, "entropy") = 3

\* C15: every pair evaluation makes exactly three partial traces (one of the
\* full 2^n-dimensional state, two of the 4 x 4 rho_ij) and exactly three
\* entropy computations (of two 2 x 2 matrices and of the 4 x 4 rho_ij), for
\* every n >= 2 and whatever the depth of the preparing circuit.
C15_ThreeTracesThreeEntropies ==
    \A p \in DOMAIN evals :
        LET calls == evals[p].calls
        IN /\ NumQubits(rho[1]) >= 2
           /\ CallsOf(calls, "partial_trace") = 3
           /\ CallsOf(calls, "entropy") = 3
           /\ [k \in DOMAIN calls |-> calls[k].dim] =
                  << Dim(rho[1]), 4, 2, 4, 2, 4 >>

C15_Witness ==
    /\ wpc = "loop"
    /\ Len(circuit) = 3
    /\ <<0, 2>> \in DOMAIN evals
    /\ CallsOf(evals[<<0, 2>>].calls, "partial_trace") = 3
    /\ evals[<<0, 2>>].calls[1].dim = 8

\* c is made of the first k moments of ms for some k >= 1: it starts at
\* moment 0.
StartsAtMomentZero(c, ms) == \E k \in 1..Len(ms) : c = SubSeq(ms, 1, k)

\* C16: for a circuit of M >= 1 moments a call that returns has invoked the
\* simulator exactly M times; every invocation, made before a return or a
\* failure, got a circuit that starts at moment 0, and the state it gave back
\* is one that circuit yields from the initial state |0...0>, not from a
\* state returned earlier.
C16_OneFreshRunPerMoment ==
    Len(moments) >= 1 =>
        /\ pc = "returned" => Len(sim_log) = Len(moments)
        /\ Len(sim_log) <= Len(moments)
        /\ \A k \in DOMAIN sim_log :
              /\ StartsAtMomentZero(sim_log[k].circuit, moments)
              /\ sim_log[k].ok => sim_log[k].result \in SimOutcomes(sim_log[k].circuit)

C16_Witness ==
    /\ pc = "returned"
    /\ Len(moments) = 3
    /\ Len(sim_log) = 3
    /\ sim_log[2].circuit = SubSeq(moments, 1, 2)
    /\ sim_log[2].result # sim_log[3].result
    /\ sim_log[3].result \in SimOutcomes(moments)

-----------------------------------------------------------------------------
(* The loop body of compute_mutual_information run for the pairs in any    *)
(* order, the reading and the storing of different pairs interleaved.      *)

\* The locals one run of the loop body computes for the pair (a, b).
PairLocals(m, a, b) ==
    LET rho_ij == rho_pair(m, a, b)
        entropy_i == entropy_first(rho_ij)
        entropy_j == entropy_second(rho_ij)
    IN [i |-> a, j |-> b, rho_ij |-> rho_ij,
        entropy_i |-> entropy_i, entropy_j |-> entropy_j,
        value |-> mutual_information(entropy_i, entropy_j, rho_ij)]

\* compute_mutual_information as a function of rho: the loops in their
\* order from the pair (a, b) on, then the mirroring.
RECURSIVE LoopFrom(_, _, _, _)
LoopFrom(m, w, a, b) ==
    IF a >= NumQubits(m) THEN Mirror(w)
    ELSE LET next == NextPair(a, b, NumQubits(m))
         IN LoopFrom(m, WriteEntry(w, a, b, PairLocals(m, a, b).value), next[1], next[2])

compute_mutual_information(m) ==
    LoopFrom(m, Zeros(NumQubits(m)), FirstPair(NumQubits(m))[1], FirstPair(NumQubits(m))[2])

\* The states the pairs are run out of order on: H on qubit 0, X on the
\* others, then CNOTs between neighbours.
OrderCircuits ==
    UNION { { FirstLayer([q \in Indices(n) |-> IF q = 0 THEN "H" ELSE "X"]) \o CnotLayers(B) :
                B \in SUBSET Indices(n - 1) } : n \in 2..MaxQubits }

A_Start ==
    /\ wpc = "start"
    /\ mim' = Some(Zeros(NumQubits(rho[1])))
    /\ wpc' = "loop"
    /\ UNCHANGED <<rho, wi, wj, last, failed, wret, evals, pending>>
    /\ UNCHANGED pvars

\* Lines 405-414 for a pair not taken up yet.
A_Read ==
    /\ wpc = "loop"
    /\ \E p \in PairsOf(NumQubits(rho[1])) \ (DOMAIN pending \cup DOMAIN evals) :
          pending' = [q \in DOMAIN pending \cup {p} |->
                         IF q = p THEN PairLocals(rho[1], p[1], p[2]) ELSE pending[q]]
    /\ UNCHANGED <<rho, wpc, wi, wj, mim, last, failed, wret, evals>>
    /\ UNCHANGED pvars

\* Line 417 for a pair whose locals are computed.
A_Write ==
    /\ wpc = "loop"
    /\ \E p \in DOMAIN pending :
          /\ mim' = Some(WriteEntry(mim[1], p[1], p[2], pending[p].value))
          /\ evals' = Recorded(evals, p, PairCalls(rho[1], p[1], p[2]))
          /\ last' = Some([f \in {"i", "j", "rho_ij", "entropy_i", "entropy_j"} |-> pending[p][f]])
          /\ pending' = [q \in DOMAIN pending \ {p} |-> pending[q]]
    /\ UNCHANGED <<rho, wpc, wi, wj, failed, wret>>
    /\ UNCHANGED pvars

A_Return ==
    /\ wpc = "loop"
    /\ DOMAIN evals = PairsOf(NumQubits(rho[1]))
    /\ mim' = Some(Mirror(mim[1]))
    /\ wret' = Some(Mirror(mim[1]))
    /\ wpc' = "returned"
    /\ UNCHANGED <<rho, wi, wj, last, failed, evals, pending>>
    /\ UNCHANGED pvars

InitAnyOrder ==
    /\ circuit \in OrderCircuits
    /\ rho = Some(final_density_matrix(circuit))
    /\ wpc = "start"
    /\ wi = 0
    /\ wj = 0
    /\ mim = None
    /\ last = None
    /\ failed = None
    /\ wret = None
    /\ evals = <<>>
    /\ pending = <<>>
    /\ pc = "idle"
    /\ i = 0
    /\ state_vectors = <<>>
    /\ sim_log = <<>>
    /\ ret = None

NextAnyOrder ==
    \/ A_Start
    \/ A_Read
    \/ A_Write
    \/ A_Return

SpecWeigherAnyOrder == InitAnyOrder /\ [][NextAnyOrder]_vars

\* C17: the pair evaluations are independent.  Whatever the order in which
\* the pairs are taken up and stored, each pair's locals are those the loop
\* body computes from the input state alone, storing a pair changes no entry
\* but its own, the matrix returned is the one the loops give in their own
\* order, and the input state is the one handed in, at return and before.
C17_PairsIndependent ==
    /\ [](rho = Some(final_density_matrix(circuit)))
    /\ [](\A p \in DOMAIN pending :
            pending[p] = PairLocals(final_density_matrix(circuit), p[1], p[2]))
    /\ [](wpc = "returned" =>
            wret = Some(compute_mutual_information(final_density_matrix(circuit))))
    /\ [][\A p \in DOMAIN pending \ DOMAIN pending' :
            /\ rho' = rho
            /\ mim'[1][p[1]][p[2]] = pending[p].value
            /\ \A r \in DOMAIN mim[1], c \in DOMAIN mim[1] :
                  <<r, c>> # p => mim'[1][r][c] = mim[1][r][c]]_vars

C17_Witness ==
    /\ wpc = "returned"
    /\ NumQubits(rho[1]) = 3
    /\ last[1].i = 0
    /\ last[1].j = 1
    /\ wret[1][0][1] > 0
    /\ wret = Some(compute_mutual_information(rho[1]))

=========================================================================
